---- MODULE Spec2Model ----
(***************************************************************************)
(* A model of capeval.py: the Investor account, the CapeValidator price    *)
(* lookup (_get_market_price), the month label parser (_parse_pe_date)     *)
(* and the simulation loop (calculate_worth_vs_time).                      *)
(*                                                                         *)
(* Python floats are binary floating point numbers.  They are modelled as  *)
(* pairs <<m, e>> standing for m * 2^e, m odd (or <<0, 0>>), and every     *)
(* arithmetic operation rounds its exact result to MantBits significant    *)
(* bits, to nearest, ties to even, as IEEE 754 does with 53 bits.  The     *)
(* exponent is unbounded: overflow and underflow are not modelled.         *)
(***************************************************************************)
EXTENDS Integers, Sequences, FiniteSets, TLC

VARIABLES
    acct,       \* one Investor driven through its methods
    ncalls,     \* calls made to acct so far
    log,        \* the last two calls made to acct, oldest first
    label,      \* _parse_pe_date: the <<month, year>> of date_str
    date0,      \* _parse_pe_date: the local date0
    date,       \* _parse_pe_date: the local date
    ppc,        \* _parse_pe_date: where the call stands
    index_cache, \* CapeValidator.index_cache: date -> price
    opc,        \* _get_market_price: where the (recursive) call stands
    odate,      \* _get_market_price: the local date of the innermost call
    try_next,   \* _get_market_price: try_next of the innermost call
    result,     \* _get_market_price: the value returned
    req,        \* history: the date and try_next of the outermost call
    cache0,     \* history: index_cache when the outermost call was made
    calls,      \* history: the provider calls of this resolution, in order
    resolved,   \* history: how the dates asked for before were last resolved
    nlookups,   \* direct calls of _get_market_price made so far
    config,     \* the arguments of CapeValidator(...) and the lines of the file
    disk,       \* the cache file of the index on disk
    investors,  \* CapeValidator.investors
    pe_array,   \* CapeValidator.pe_array: <<date, pe>> pairs
    worth_matrix, shares_matrix, cash_matrix,
    pc,         \* where the validator's process stands
    it,         \* calculate_worth_vs_time: items the for loop has taken
    i,          \* calculate_worth_vs_time: the local i
    j,          \* calculate_worth_vs_time: the local j (from 1)
    loop_pe,    \* calculate_worth_vs_time: the local pe_ratio
    loop_price, \* calculate_worth_vs_time: the local market_price
    runs,       \* validators constructed so far
    disk0,      \* history: the disk when the validator was constructed
    saves,      \* history: save_index_cache calls of this validator
    hist        \* history: what was done to account j in the t-th iteration

\* The Investor driven directly.
avars == <<acct, ncalls, log>>

\* A call of _parse_pe_date.
pvars == <<label, date0, date, ppc>>

\* A resolution of _get_market_price and the cache it works on.
ovars == <<index_cache, opc, odate, try_next, result, req, cache0, calls,
           resolved>>

\* A CapeValidator, its run and the file system.
rvars == <<config, disk, investors, pe_array, worth_matrix, shares_matrix,
           cash_matrix, pc, it, i, j, loop_pe, loop_price, runs, disk0,
           saves, hist>>

vars == <<avars, pvars, ovars, nlookups, rvars>>

\* ------------------------------------------------------------------ bounds

\* Significant bits of a float (53 in the binary64 of Python).
MantBits == 4

\* Calls made to one Investor in the account specification.
MaxCalls == 2

\* Direct calls of _get_market_price in the price specification.
MaxLookups == 2

\* Runs of calculate_worth_vs_time, each in a new process; one more validator
\* is constructed after the last run, which loads what that run saved.
MaxRuns == 1

\* ------------------------------------------------------------------ floats

RECURSIVE Pow2(_)
Pow2(k) == IF k <= 0 THEN 1 ELSE 2 * Pow2(k - 1)

Abs(x) == IF x < 0 THEN -x ELSE x

Min(x, y) == IF x <= y THEN x ELSE y

\* The canonical pair of m * 2^e: m odd, or <<0, 0>>.
RECURSIVE Norm(_, _)
Norm(m, e) ==
    IF m = 0 THEN <<0, 0>>
    ELSE IF m % 2 = 0 THEN Norm(m \div 2, e + 1)
    ELSE <<m, e>>

Zero == <<0, 0>>

\* Exact (unrounded) arithmetic on pairs.
XNeg(a) == <<-a[1], a[2]>>

XAbs(a) == <<Abs(a[1]), a[2]>>

XAdd(a, b) ==
    LET e == Min(a[2], b[2])
    IN  Norm(a[1] * Pow2(a[2] - e) + b[1] * Pow2(b[2] - e), e)

XSub(a, b) == XAdd(a, XNeg(b))

XMul(a, b) == Norm(a[1] * b[1], a[2] + b[2])

XSign(a) == IF a[1] > 0 THEN 1 ELSE IF a[1] < 0 THEN -1 ELSE 0

\* Comparisons are exact in floating point.
FLt(a, b) == XSign(XSub(a, b)) < 0

FLe(a, b) == XSign(XSub(a, b)) <= 0

FGt(a, b) == FLt(b, a)

FGe(a, b) == FLe(b, a)

\* n/d * 2^e (n > 0, d > 0) scaled so that 2^(MantBits-1) <= n/d < 2^MantBits,
\* then rounded to an integer, ties to even.
RECURSIVE RoundND(_, _, _)
RoundND(n, d, e) ==
    IF n < d * Pow2(MantBits - 1) THEN RoundND(2 * n, d, e - 1)
    ELSE IF n >= d * Pow2(MantBits) THEN RoundND(n, 2 * d, e + 1)
    ELSE LET q == n \div d
             r == n % d
             up == (2 * r > d) \/ (2 * r = d /\ q % 2 = 1)
         IN  Norm(IF up THEN q + 1 ELSE q, e)

\* The float nearest to the exact value a.
Round(a) ==
    IF a[1] = 0 THEN Zero
    ELSE LET f == RoundND(Abs(a[1]), 1, a[2])
         IN  IF a[1] < 0 THEN XNeg(f) ELSE f

\* Float of a small integer (exact below 2^MantBits).
F(n) == Round(<<n, 0>>)

FAdd(a, b) == Round(XAdd(a, b))

FMul(a, b) == Round(XMul(a, b))

\* a / b for b # 0 (Python raises ZeroDivisionError for b = 0).
FDiv(a, b) ==
    IF a[1] = 0 THEN Zero
    ELSE LET f == RoundND(Abs(a[1]), Abs(b[1]), a[2] - b[2])
         IN  IF (a[1] < 0) # (b[1] < 0) THEN XNeg(f) ELSE f

\* ---------------------------------------------------------------- datetime

\* A datetime at midnight is modelled by its proleptic Gregorian ordinal
\* (datetime.toordinal()); timedelta(n) is the integer n.

\* datetime.max.toordinal(): the 31st of December 9999.
MaxOrdinal == 3652059

IsLeap(y) == y % 4 = 0 /\ (y % 100 # 0 \/ y % 400 = 0)

DaysBeforeYear(y) ==
    (y - 1) * 365 + (y - 1) \div 4 - (y - 1) \div 100 + (y - 1) \div 400

DaysInMonth(y, m) ==
    IF m = 2 THEN (IF IsLeap(y) THEN 29 ELSE 28)
    ELSE IF m \in {4, 6, 9, 11} THEN 30 ELSE 31

RECURSIVE DaysBeforeMonth(_, _)
DaysBeforeMonth(y, m) ==
    IF m <= 1 THEN 0 ELSE DaysBeforeMonth(y, m - 1) + DaysInMonth(y, m - 1)

\* datetime(y, m, d).toordinal()
Ymd2Ord(y, m, d) == DaysBeforeYear(y) + DaysBeforeMonth(y, m) + d

\* The year of an ordinal: the y with DaysBeforeYear(y) < n <= DaysBeforeYear(y + 1).
RECURSIVE YearFrom(_, _)
YearFrom(n, y) == IF DaysBeforeYear(y + 1) < n THEN YearFrom(n, y + 1) ELSE y

YearOf(n) == YearFrom(n, (n - 1) \div 366 + 1)

RECURSIVE MonthFrom(_, _, _)
MonthFrom(k, y, m) ==
    IF DaysBeforeMonth(y, m + 1) < k THEN MonthFrom(k, y, m + 1) ELSE m

\* datetime.month
MonthOf(n) == MonthFrom(n - DaysBeforeYear(YearOf(n)), YearOf(n), 1)

\* datetime.day
DayOf(n) ==
    n - DaysBeforeYear(YearOf(n)) - DaysBeforeMonth(YearOf(n), MonthOf(n))

\* datetime.weekday(): Monday is 0, Sunday is 6; ordinal 1 is a Monday.
Weekday(n) == (n + 6) % 7

\* datetime + timedelta(k) raises OverflowError beyond datetime.max.
Overflows(n, k) == n + k > MaxOrdinal

\* datetime.strptime(date_str, '%m/%Y'): the first day of the month.
Strptime(m, y) == Ymd2Ord(y, m, 1)

\* ---------------------------------------------------------------- Investor

\* Python's None (an omitted sell_at).
None == <<>>

\* Investor.__init__: sell_at defaults to buy_at.
\* An Investor whose omitted sell threshold is put one above the buy one.
InvestorSellAbove(buy_at, sell_at, init_cash, shares, income) ==
    [buy_at |-> buy_at,
     sell_at |-> IF sell_at = None THEN FAdd(buy_at, F(1)) ELSE sell_at,
     init_cash |-> init_cash,
     cash |-> init_cash,
     shares |-> shares,
     income |-> income]

Investor(buy_at, sell_at, init_cash, shares, income) ==
    [buy_at |-> buy_at,
     sell_at |-> IF sell_at = None THEN buy_at ELSE sell_at,
     init_cash |-> init_cash,
     cash |-> init_cash,
     shares |-> shares,
     income |-> income]

\* get_paid that starts again from the initial cash.
get_paid_from_init(a) == [a EXCEPT !.cash = FAdd(a.init_cash, a.income)]

get_paid(a) == [a EXCEPT !.cash = FAdd(a.cash, a.income)]

get_net_worth(a, market_price) == FAdd(a.cash, FMul(a.shares, market_price))

\* sell_all that clears the shares without adding what they fetch.
sell_all_for_nothing(a, market_price) == [a EXCEPT !.shares = Zero]

\* sell_all that forgets to clear the shares.
sell_all_keep(a, market_price) ==
    [a EXCEPT !.cash = FAdd(a.cash, FMul(market_price, a.shares))]

sell_all(a, market_price) ==
    [a EXCEPT !.cash = FAdd(a.cash, FMul(market_price, a.shares)),
              !.shares = Zero]

\* self.cash / market_price raises ZeroDivisionError before any assignment.
buy_all_raises(a, market_price) == market_price = Zero

\* buy_all that overwrites the shares held instead of adding to them.
buy_all_overwrite(a, market_price) ==
    [a EXCEPT !.shares = FDiv(a.cash, market_price),
              !.cash = Zero]

\* buy_all that spends the cash and the next income as well.
buy_all_on_credit(a, market_price) ==
    [a EXCEPT !.shares = FAdd(a.shares, FDiv(FAdd(a.cash, a.income), market_price)),
              !.cash = XNeg(a.income)]

buy_all(a, market_price) ==
    [a EXCEPT !.shares = FAdd(a.shares, FDiv(a.cash, market_price)),
              !.cash = Zero]

\* react_to_pe with the sell trigger inclusive (>= for >).
react_branch_ge(a, pe_ratio) ==
    IF a.shares # Zero /\ FGe(pe_ratio, a.sell_at) THEN "sell"
    ELSE IF a.cash # Zero /\ FLe(pe_ratio, a.buy_at) THEN "buy"
    ELSE "hold"

\* The branch react_to_pe takes: `if self.shares and ...` and `elif self.cash
\* and ...` test the floats for being non-zero.
react_branch(a, pe_ratio) ==
    IF a.shares # Zero /\ FGt(pe_ratio, a.sell_at) THEN "sell"
    ELSE IF a.cash # Zero /\ FLe(pe_ratio, a.buy_at) THEN "buy"
    ELSE "hold"

react_raises(a, pe_ratio, market_price) ==
    react_branch(a, pe_ratio) = "buy" /\ buy_all_raises(a, market_price)

react_to_pe(a, pe_ratio, market_price) ==
    CASE react_branch(a, pe_ratio) = "sell" -> sell_all(a, market_price)
      [] react_branch(a, pe_ratio) = "buy" -> buy_all(a, market_price)
      [] OTHER -> a

\* ------------------------------------------------------- _parse_pe_date

\* The loop walking past the end of the month that tests the month only.
ParseLoopCondMonthOnly(d, d0) == MonthOf(d) = MonthOf(d0)

\* while date.month == date0.month or date.weekday() > 4
ParseLoopCond(d, d0) == MonthOf(d) = MonthOf(d0) \/ Weekday(d) > 4

\* The loop of _parse_pe_date from date on: the date returned, or
\* "OverflowError" when date += timedelta(1) leaves the datetime range.
RECURSIVE ParseLoop(_, _)
ParseLoop(d, d0) ==
    IF ParseLoopCond(d, d0)
    THEN IF Overflows(d, 1) THEN "OverflowError" ELSE ParseLoop(d + 1, d0)
    ELSE d

parse_pe_date(m, y) == ParseLoop(Strptime(m, y) + 27, Strptime(m, y))

\* date += timedelta(1) overflows before the loop of _parse_pe_date ends.
RECURSIVE ParseLoopRaises(_, _)
ParseLoopRaises(d, d0) ==
    ParseLoopCond(d, d0) /\ (Overflows(d, 1) \/ ParseLoopRaises(d + 1, d0))

parse_raises(m, y) == ParseLoopRaises(Strptime(m, y) + 27, Strptime(m, y))

\* The month labels parsed: leap and common years, century years, the turn
\* of a year and the last year a datetime holds.
LabelYears == {1900, 2000, 2011, 2012, 2015, 2016, 2100, 9998, 9999}

Labels == (1..12) \X LabelYears

NoDate == 0

ParseCalled ==
    /\ label \in Labels
    /\ date0 = NoDate
    /\ date = NoDate
    /\ ppc = "call"

\* date0 = strptime(date_str, '%m/%Y'); date = date0 + timedelta(27)
ParseEnter ==
    /\ ppc = "call"
    /\ date0' = Strptime(label[1], label[2])
    /\ date' = Strptime(label[1], label[2]) + 27
    /\ ppc' = "loop"
    /\ UNCHANGED label
    /\ UNCHANGED <<avars, ovars, nlookups, rvars>>

\* One iteration of the while loop.
ParseStep ==
    /\ ppc = "loop"
    /\ ParseLoopCond(date, date0)
    /\ IF Overflows(date, 1)
       THEN ppc' = "OverflowError" /\ date' = date
       ELSE ppc' = "loop" /\ date' = date + 1
    /\ UNCHANGED <<label, date0>>
    /\ UNCHANGED <<avars, ovars, nlookups, rvars>>

\* The loop condition is false: return date.
ParseReturn ==
    /\ ppc = "loop"
    /\ ~ParseLoopCond(date, date0)
    /\ ppc' = "return"
    /\ UNCHANGED <<label, date0, date>>
    /\ UNCHANGED <<avars, ovars, nlookups, rvars>>

ParseIdle ==
    /\ label = <<1, 2011>>
    /\ date0 = NoDate
    /\ date = NoDate
    /\ ppc = "idle"

NextParse == ParseEnter \/ ParseStep \/ ParseReturn

\* ---------------------------------------------------- _get_market_price

\* try_next=2 in the signature of _get_market_price.
DefaultTryNext == 2

\* What get_data_yahoo(...)['Adj Close'][0] is caught failing with
\* (IndexError, OSError).
Fail == "fail"

\* The prices the provider answers with.
ProviderPrices == {F(3), F(5)}

NoPrice == <<>>

EmptyCache == [d \in {} |-> NoPrice]

\* A lookup that takes the date as it comes.
NormWeekendNone(d) == d

\* while date.weekday() > 4: date -= timedelta(1)
RECURSIVE NormWeekend(_)
NormWeekend(d) == IF Weekday(d) > 4 THEN NormWeekend(d - 1) ELSE d

\* A lookup that never finds the date cached.
CachedNever(cache, d) == FALSE

\* if date in self.index_cache
Cached(cache, d) == d \in DOMAIN cache

\* A store that forgets every entry but the new one.
StoredAlone(cache, requested, fetched, price) == [d \in {fetched} |-> price]

\* A store keyed by the day before the date fetched.
StoredDayBefore(cache, requested, fetched, price) ==
    [d \in DOMAIN cache \cup {fetched - 1} |->
        IF d = fetched - 1 THEN price ELSE cache[d]]

\* A store keyed by the date first asked for instead of the date fetched.
StoredUnderRequested(cache, requested, fetched, price) ==
    [d \in DOMAIN cache \cup {NormWeekend(requested)} |->
        IF d = NormWeekend(requested) THEN price ELSE cache[d]]

\* self.index_cache[date] = price
Stored(cache, requested, fetched, price) ==
    [d \in DOMAIN cache \cup {fetched} |-> IF d = fetched THEN price ELSE cache[d]]

\* A retry test that gives up one attempt early.
HasBudgetShort(tn) == tn > 1

\* if try_next
HasBudget(tn) == tn # 0

NoneResolved == [d \in {} |-> [price |-> NoPrice, direct |-> FALSE]]

\* The resolutions that returned, with the one just ended: the price returned
\* for the date asked, and whether it was the price of that date itself (of
\* the weekday it normalises to) and not of an earlier fallback date.
WithLastResolution ==
    IF opc = "returned"
    THEN [d \in DOMAIN resolved \cup {req[1]} |->
            IF d = req[1]
            THEN [price |-> result, direct |-> odate = NormWeekend(req[1])]
            ELSE resolved[d]]
    ELSE resolved

\* Entering _get_market_price(d, tn): normalise, then return the cached price
\* or go on to ask the provider.
Enter(d, tn) ==
    IF Cached(index_cache, NormWeekend(d))
    THEN /\ opc' = "returned"
         /\ result' = index_cache[NormWeekend(d)]
         /\ odate' = NormWeekend(d)
         /\ try_next' = tn
    ELSE /\ opc' = "fetch"
         /\ result' = NoPrice
         /\ odate' = NormWeekend(d)
         /\ try_next' = tn

\* The outermost call _get_market_price(d, tn).
Resolve(d, tn) ==
    /\ Enter(d, tn)
    /\ req' = <<d, tn>>
    /\ cache0' = index_cache
    /\ calls' = <<>>
    /\ resolved' = WithLastResolution
    /\ UNCHANGED index_cache

\* get_data_yahoo answers with a price: store it and return it.
ProviderAnswers ==
    /\ opc = "fetch"
    /\ \E price \in ProviderPrices :
          /\ index_cache' = Stored(index_cache, req[1], odate, price)
          /\ result' = price
          /\ calls' = Append(calls, <<odate, price>>)
    /\ opc' = "returned"
    /\ UNCHANGED <<odate, try_next, req, cache0, resolved>>
    /\ UNCHANGED <<avars, pvars, nlookups, rvars>>

\* get_data_yahoo fails and a retry is left: recurse on the day before.
ProviderFailsRetry ==
    /\ opc = "fetch"
    /\ HasBudget(try_next)
    /\ Enter(odate - 1, try_next - 1)
    /\ calls' = Append(calls, <<odate, Fail>>)
    /\ UNCHANGED <<index_cache, req, cache0, resolved>>
    /\ UNCHANGED <<avars, pvars, nlookups, rvars>>

\* get_data_yahoo fails and no retry is left: the exception is raised again.
ProviderFailsRaise ==
    /\ opc = "fetch"
    /\ ~HasBudget(try_next)
    /\ opc' = "raised"
    /\ calls' = Append(calls, <<odate, Fail>>)
    /\ UNCHANGED <<index_cache, odate, try_next, result, req, cache0, resolved>>
    /\ UNCHANGED <<avars, pvars, nlookups, rvars>>

\* The dates asked for directly: Saturday the 1st to Wednesday the 5th of
\* October 2011.
LookupDates == Ymd2Ord(2011, 10, 1) .. Ymd2Ord(2011, 10, 5)

\* A direct call _get_market_price(d, tn), once the one before has ended.
Lookup ==
    /\ opc \in {"idle", "returned", "raised"}
    /\ nlookups < MaxLookups
    /\ \E d \in LookupDates, tn \in 0 .. DefaultTryNext : Resolve(d, tn)
    /\ nlookups' = nlookups + 1
    /\ UNCHANGED <<avars, pvars, rvars>>

OracleIdle ==
    /\ index_cache = EmptyCache
    /\ opc = "idle"
    /\ odate = NoDate
    /\ try_next = 0
    /\ result = NoPrice
    /\ req = <<NoDate, 0>>
    /\ cache0 = EmptyCache
    /\ calls = <<>>
    /\ resolved = NoneResolved

NextPrice ==
    \/ Lookup
    \/ ProviderAnswers
    \/ ProviderFailsRetry
    \/ ProviderFailsRaise

\* ------------------------------------------- the account specification

\* (buy_at, sell_at) pairs: sell_at omitted, above buy_at, below buy_at.
AcctThresholds == {<<F(2), None>>, <<F(2), F(3)>>, <<F(3), F(1)>>}

AcctCash == {0, 1, 3, 5}

AcctShares == {0, 2}

AcctIncome == {-1, 2}

SellPrices == {2, 3}

BuyPrices == {-2, 0, 2, 3}

ReactPrices == {0, 2, 3}

CallRatios == {2, 3, 4}

Entry(op, pe, price, pre, raised) ==
    [op |-> op, pe |-> pe, price |-> price, pre |-> pre, raised |-> raised]

\* The log keeps the last two calls.
Logged(entry) == IF Len(log) < 2 THEN Append(log, entry) ELSE <<log[2], entry>>

AcctIdle ==
    /\ acct = Investor(F(2), None, Zero, Zero, Zero)
    /\ ncalls = MaxCalls
    /\ log = <<>>

AcctCreated ==
    /\ \E t \in AcctThresholds, c \in AcctCash, s \in AcctShares, inc \in AcctIncome :
          acct = Investor(t[1], t[2], F(c), F(s), F(inc))
    /\ ncalls = 0
    /\ log = <<>>

CallGetPaid ==
    /\ ncalls < MaxCalls
    /\ acct' = get_paid(acct)
    /\ log' = Logged(Entry("get_paid", Zero, Zero, acct, FALSE))
    /\ ncalls' = ncalls + 1
    /\ UNCHANGED <<pvars, ovars, nlookups, rvars>>

CallSellAll ==
    /\ ncalls < MaxCalls
    /\ \E p \in SellPrices :
          /\ acct' = sell_all(acct, F(p))
          /\ log' = Logged(Entry("sell_all", Zero, F(p), acct, FALSE))
    /\ ncalls' = ncalls + 1
    /\ UNCHANGED <<pvars, ovars, nlookups, rvars>>

CallBuyAll ==
    /\ ncalls < MaxCalls
    /\ \E p \in BuyPrices :
          /\ acct' = IF buy_all_raises(acct, F(p)) THEN acct ELSE buy_all(acct, F(p))
          /\ log' = Logged(Entry("buy_all", Zero, F(p), acct,
                                 buy_all_raises(acct, F(p))))
    /\ ncalls' = ncalls + 1
    /\ UNCHANGED <<pvars, ovars, nlookups, rvars>>

CallReact ==
    /\ ncalls < MaxCalls
    /\ \E r \in CallRatios, p \in ReactPrices :
          /\ acct' = IF react_raises(acct, F(r), F(p)) THEN acct
                     ELSE react_to_pe(acct, F(r), F(p))
          /\ log' = Logged(Entry("react_to_pe", F(r), F(p), acct,
                                 react_raises(acct, F(r), F(p))))
    /\ ncalls' = ncalls + 1
    /\ UNCHANGED <<pvars, ovars, nlookups, rvars>>

NextAcct == CallGetPaid \/ CallSellAll \/ CallBuyAll \/ CallReact

\* ------------------------------------------------------- CapeValidator

\* init_cash=10000., shares=0., income=2000. of Investor.__init__
DefaultInitCash == 10000

DefaultIncome == 2000

\* numpy.empty: a cell nothing was written to.
Uninit == "uninitialised"

\* load_pe_array on the lines from the k-th on: a blank line is <<>>, any
\* other a <<<<month, year>>, pe>> pair.
\* A window test that leaves the end date out.
InWindowOpenEnd(d, start_date, end_date) == start_date <= d /\ d < end_date

\* if start_date <= date <= end_date
InWindow(d, start_date, end_date) == start_date <= d /\ d <= end_date

RECURSIVE LoadFrom(_, _, _, _, _)
LoadFrom(lines, k, start_date, end_date, acc) ==
    IF k > Len(lines) THEN acc
    ELSE IF lines[k] = <<>> THEN LoadFrom(lines, k + 1, start_date, end_date, acc)
    ELSE LET d == parse_pe_date(lines[k][1][1], lines[k][1][2])
         IN  IF parse_raises(lines[k][1][1], lines[k][1][2]) THEN "OverflowError"
             ELSE IF InWindow(d, start_date, end_date)
             THEN LoadFrom(lines, k + 1, start_date, end_date,
                           Append(acc, <<d, lines[k][2]>>))
             ELSE LoadFrom(lines, k + 1, start_date, end_date, acc)

\* The pe_array load_pe_array leaves, from the empty one of __init__, or the
\* OverflowError of _parse_pe_date.
load_pe_array(lines, start_date, end_date) ==
    LoadFrom(lines, 1, start_date, end_date, <<>>)

\* init_investors: Investor(b, s) with the default cash, shares and income.
init_investors(buy_thresholds, sell_thresholds) ==
    [k \in 1 .. Min(Len(buy_thresholds), Len(sell_thresholds)) |->
        Investor(buy_thresholds[k], sell_thresholds[k],
                 F(DefaultInitCash), Zero, F(DefaultIncome))]

\* sell_thresholds = [None] * len(buy_thresholds) when omitted.
SellThresholds(c) ==
    IF c.sell_thresholds = None
    THEN [k \in 1 .. Len(c.buy_thresholds) |-> None]
    ELSE c.sell_thresholds

\* pickle.dump of a mapping: its (date, price) items one after the other,
\* here by date.
RECURSIVE DumpItems(_, _)
DumpItems(cache, keys) ==
    IF keys = {} THEN <<>>
    ELSE LET d == CHOOSE x \in keys : \A y \in keys : x <= y
         IN  <<<<d, cache[d]>>>> \o DumpItems(cache, keys \ {d})

pickle_dump(cache) == DumpItems(cache, DOMAIN cache)

\* pickle.load: the mapping built from the items.
pickle_load(blob) ==
    [d \in {blob[k][1] : k \in 1 .. Len(blob)} |->
        blob[CHOOSE k \in 1 .. Len(blob) : blob[k][1] = d][2]]

\* A load_index_cache that ignores the file.
load_index_cache_never(d) == EmptyCache

\* load_index_cache: the pickled mapping if the file exists.
load_index_cache(d) == IF d.exists THEN pickle_load(d.data) ELSE EmptyCache

NoFile == [exists |-> FALSE, data |-> <<>>]

\* numpy.empty((len(investors), len(pe_array)))
EmptyMatrix(n, t) == [a \in 1 .. n |-> [c \in 1 .. t |-> Uninit]]

NoHist ==
    [paid |-> 0, reacted |-> 0, recorded |-> 0, col |-> 0,
     paidstate |-> None, post |-> None, price |-> NoPrice]

\* The lines of the pe file: month labels resolving to Monday the 1st of
\* August and Thursday the 1st of September 2011, in and out of order, the
\* same month twice, a blank line.
PeFiles ==
    {<<<<<<7, 2011>>, F(2)>>>>,
     <<<<<<7, 2011>>, F(3)>>, <<<<8, 2011>>, F(4)>>>>,
     <<<<<<7, 2011>>, F(2)>>, <<>>, <<<<8, 2011>>, F(3)>>>>,
     <<<<<<8, 2011>>, F(3)>>, <<<<7, 2011>>, F(2)>>>>,
     <<<<<<8, 2011>>, F(2)>>, <<<<8, 2011>>, F(4)>>>>}

\* Two investors: sell thresholds omitted, and given above the buy ones.
ThresholdLists ==
    {<<<<F(3), F(2)>>, None>>,
     <<<<F(2), F(3)>>, <<F(3), F(3)>>>>}

\* The window of the analysis: the 1st of August to the 15th of November
\* 2011.
Configs ==
    {[file |-> f, start_date |-> Ymd2Ord(2011, 8, 1),
      end_date |-> Ymd2Ord(2011, 11, 15),
      buy_thresholds |-> t[1], sell_thresholds |-> t[2]] :
        f \in PeFiles, t \in ThresholdLists}

\* What load_pe_array and init_investors make of each configuration.
LoadedPeArray ==
    [c \in Configs |-> load_pe_array(c.file, c.start_date, c.end_date)]

InitialInvestors ==
    [c \in Configs |-> init_investors(c.buy_thresholds, SellThresholds(c))]

NInv == Len(investors)

NPer == Len(pe_array)

RunIdle ==
    /\ config = [file |-> <<>>, start_date |-> NoDate, end_date |-> NoDate,
                 buy_thresholds |-> <<>>, sell_thresholds |-> None]
    /\ disk = NoFile
    /\ disk0 = NoFile
    /\ saves = 0
    /\ investors = <<>>
    /\ pe_array = <<>>
    /\ worth_matrix = <<>> /\ shares_matrix = <<>> /\ cash_matrix = <<>>
    /\ pc = "idle"
    /\ it = 0 /\ i = 0 /\ j = 0
    /\ loop_pe = Zero
    /\ loop_price = NoPrice
    /\ runs = 0
    /\ hist = <<>>

NoConfig ==
    [file |-> <<>>, start_date |-> NoDate, end_date |-> NoDate,
     buy_thresholds |-> <<>>, sell_thresholds |-> None]

\* No cache file yet, no process started.
InitRun ==
    /\ config = NoConfig
    /\ disk = NoFile
    /\ disk0 = NoFile
    /\ saves = 0
    /\ investors = <<>>
    /\ pe_array = <<>>
    /\ worth_matrix = <<>> /\ shares_matrix = <<>> /\ cash_matrix = <<>>
    /\ pc = "new"
    /\ it = 0 /\ i = 0 /\ j = 0
    /\ loop_pe = Zero
    /\ loop_price = NoPrice
    /\ runs = 0
    /\ hist = <<>>

\* CapeValidator.__init__ in a new process, on the arguments c.
Construct ==
    /\ pc \in {"new", "done", "aborted"}
    /\ runs <= MaxRuns
    /\ \E c \in Configs :
       LET pes == LoadedPeArray[c]
           invs == InitialInvestors[c]
       IN  /\ config' = c
           /\ pe_array' = pes
           /\ investors' = invs
           /\ worth_matrix' = EmptyMatrix(Len(invs), Len(pes))
           /\ shares_matrix' = EmptyMatrix(Len(invs), Len(pes))
           /\ cash_matrix' = EmptyMatrix(Len(invs), Len(pes))
           /\ hist' = [a \in 1 .. Len(invs) |-> [t \in 1 .. Len(pes) |-> NoHist]]
    /\ index_cache' = load_index_cache(disk)
    /\ opc' = "idle" /\ odate' = NoDate /\ try_next' = 0 /\ result' = NoPrice
    /\ req' = <<NoDate, 0>> /\ cache0' = EmptyCache /\ calls' = <<>>
    /\ resolved' = IF pc = "done" THEN WithLastResolution ELSE NoneResolved
    /\ disk0' = disk
    /\ saves' = 0
    /\ runs' = runs + 1
    /\ pc' = "ready"
    /\ it' = 0 /\ i' = 0 /\ j' = 0
    /\ loop_pe' = Zero /\ loop_price' = NoPrice
    /\ UNCHANGED <<disk, avars, pvars, nlookups>>

\* calculate_worth_vs_time is called: i = 0.
RunStart ==
    /\ pc = "ready"
    /\ runs <= MaxRuns
    /\ i' = 0
    /\ it' = 0
    /\ pc' = "loop"
    /\ UNCHANGED <<config, disk, investors, pe_array, worth_matrix, shares_matrix,
                   cash_matrix, j, loop_pe, loop_price, runs, disk0,
                   saves, hist>>
    /\ UNCHANGED <<avars, pvars, ovars, nlookups>>

\* The for loop takes the next (date, loop_pe) and asks for its price.
RunNextPeriod ==
    /\ pc = "loop"
    /\ it < NPer
    /\ it' = it + 1
    /\ loop_pe' = pe_array[it + 1][2]
    /\ Resolve(pe_array[it + 1][1], DefaultTryNext)
    /\ pc' = "price"
    /\ UNCHANGED <<config, disk, investors, pe_array, worth_matrix, shares_matrix,
                   cash_matrix, i, j, loop_price, runs, disk0,
                   saves, hist>>
    /\ UNCHANGED <<avars, pvars, nlookups>>

\* _get_market_price returned: the inner loop starts.
RunGotPrice ==
    /\ pc = "price"
    /\ opc = "returned"
    /\ loop_price' = result
    /\ IF NInv > 0
       THEN j' = 1 /\ i' = i /\ pc' = "get_paid"
       ELSE j' = j /\ i' = i + 1 /\ pc' = "loop"
    /\ UNCHANGED <<config, disk, investors, pe_array, worth_matrix, shares_matrix,
                   cash_matrix, it, loop_pe, runs, disk0,
                   saves, hist>>
    /\ UNCHANGED <<avars, pvars, ovars, nlookups>>

\* A run that saves the cache on its way out of a failed resolution.
RunAbortSaving ==
    /\ pc = "price"
    /\ opc = "raised"
    /\ pc' = "aborted"
    /\ disk' = [exists |-> TRUE, data |-> pickle_dump(index_cache)]
    /\ UNCHANGED <<config, investors, pe_array, worth_matrix, shares_matrix,
                   cash_matrix, it, i, j, loop_pe, loop_price, runs, disk0,
                   saves, hist>>
    /\ UNCHANGED <<avars, pvars, ovars, nlookups>>

\* _get_market_price raised: the exception leaves calculate_worth_vs_time.
RunAbort ==
    /\ pc = "price"
    /\ opc = "raised"
    /\ pc' = "aborted"
    /\ UNCHANGED <<config, disk, investors, pe_array, worth_matrix, shares_matrix,
                   cash_matrix, it, i, j, loop_pe, loop_price, runs, disk0,
                   saves, hist>>
    /\ UNCHANGED <<avars, pvars, ovars, nlookups>>

\* A get_paid step that pays every account of the validator.
InvGetPaidAll ==
    /\ pc = "get_paid"
    /\ investors' = [a \in 1 .. NInv |-> get_paid(investors[a])]
    /\ hist' = [hist EXCEPT ![j][it].paid = @ + 1,
                            ![j][it].paidstate = get_paid(investors[j])]
    /\ pc' = "react"
    /\ UNCHANGED <<config, disk, pe_array, worth_matrix, shares_matrix,
                   cash_matrix, it, i, j, loop_pe, loop_price, runs, disk0, saves>>
    /\ UNCHANGED <<avars, pvars, ovars, nlookups>>

\* investor.get_paid()
InvGetPaid ==
    /\ pc = "get_paid"
    /\ investors' = [investors EXCEPT ![j] = get_paid(@)]
    /\ hist' = [hist EXCEPT ![j][it].paid = @ + 1,
                            ![j][it].paidstate = get_paid(investors[j])]
    /\ pc' = "react"
    /\ UNCHANGED <<config, disk, pe_array, worth_matrix, shares_matrix,
                   cash_matrix, it, i, j, loop_pe, loop_price, runs, disk0, saves>>
    /\ UNCHANGED <<avars, pvars, ovars, nlookups>>

\* investor.react_to_pe(loop_pe, loop_price)
InvReact ==
    /\ pc = "react"
    /\ ~react_raises(investors[j], loop_pe, loop_price)
    /\ investors' = [investors EXCEPT ![j] = react_to_pe(@, loop_pe, loop_price)]
    /\ hist' = [hist EXCEPT ![j][it].reacted = @ + 1,
                            ![j][it].post = react_to_pe(investors[j], loop_pe, loop_price),
                            ![j][it].price = loop_price]
    /\ pc' = "record"
    /\ UNCHANGED <<config, disk, pe_array, worth_matrix, shares_matrix,
                   cash_matrix, it, i, j, loop_pe, loop_price, runs, disk0, saves>>
    /\ UNCHANGED <<avars, pvars, ovars, nlookups>>

\* i += 1 that leaves i where it is.
NextColumnStuck(c) == c

\* i += 1
NextColumn(c) == c + 1

\* The three matrix writes into [j][i]; after the last investor, i += 1.
\* (The code counts i and j from 0, the matrices here from 1.)
InvRecord ==
    /\ pc = "record"
    /\ worth_matrix' = [worth_matrix EXCEPT
                           ![j][i + 1] = get_net_worth(investors[j], loop_price)]
    /\ shares_matrix' = [shares_matrix EXCEPT ![j][i + 1] = investors[j].shares]
    /\ cash_matrix' = [cash_matrix EXCEPT ![j][i + 1] = investors[j].cash]
    /\ hist' = [hist EXCEPT ![j][it].recorded = @ + 1, ![j][it].col = i + 1]
    /\ IF j < NInv
       THEN j' = j + 1 /\ i' = i /\ pc' = "get_paid"
       ELSE j' = j /\ i' = NextColumn(i) /\ pc' = "loop"
    /\ UNCHANGED <<config, disk, investors, pe_array, it, loop_pe,
                   loop_price, runs, disk0, saves>>
    /\ UNCHANGED <<avars, pvars, ovars, nlookups>>

\* The for loop is exhausted: save_index_cache().
RunSave ==
    /\ pc = "loop"
    /\ it = NPer
    /\ disk' = [exists |-> TRUE, data |-> pickle_dump(index_cache)]
    /\ saves' = saves + 1
    /\ pc' = "done"
    /\ UNCHANGED <<config, investors, pe_array, worth_matrix, shares_matrix,
                   cash_matrix, it, i, j, loop_pe, loop_price, runs, disk0,
                   hist>>
    /\ UNCHANGED <<avars, pvars, ovars, nlookups>>

Next ==
    \/ Construct
    \/ RunStart
    \/ RunNextPeriod
    \/ ProviderAnswers
    \/ ProviderFailsRetry
    \/ ProviderFailsRaise
    \/ RunGotPrice
    \/ RunAbort
    \/ InvGetPaid
    \/ InvReact
    \/ InvRecord
    \/ RunSave

\* ------------------------------------------------- the load specification

\* Lines of a pe file.
MaxLines == 3

\* A blank line, and records resolving to the 1st of July, the 1st of August,
\* the 1st of September and the 3rd of October 2011, and one that overflows.
LoadLines ==
    {<<>>,
     <<<<6, 2011>>, F(2)>>,
     <<<<7, 2011>>, F(3)>>,
     <<<<8, 2011>>, F(4)>>,
     <<<<9, 2011>>, F(2)>>,
     <<<<12, 9999>>, F(3)>>}

LoadFiles == UNION {[1 .. n -> LoadLines] : n \in 0 .. MaxLines}

\* Windows from the 1st of August 2011 to the 1st of September and to the
\* 15th of November.
LoadWindows ==
    {<<Ymd2Ord(2011, 8, 1), Ymd2Ord(2011, 9, 1)>>,
     <<Ymd2Ord(2011, 8, 1), Ymd2Ord(2011, 11, 15)>>}

\* load_pe_array(pe_data_file, start_date, end_date) is called on the empty
\* pe_array of __init__.
LoadCalled ==
    /\ \E f \in LoadFiles, w \in LoadWindows :
          config = [file |-> f, start_date |-> w[1], end_date |-> w[2],
                    buy_thresholds |-> <<>>, sell_thresholds |-> None]
    /\ disk = NoFile
    /\ disk0 = NoFile
    /\ saves = 0
    /\ investors = <<>>
    /\ pe_array = <<>>
    /\ worth_matrix = <<>> /\ shares_matrix = <<>> /\ cash_matrix = <<>>
    /\ pc = "loading"
    /\ it = 0 /\ i = 0 /\ j = 0
    /\ loop_pe = Zero
    /\ loop_price = NoPrice
    /\ runs = 0
    /\ hist = <<>>

\* One turn of `for line in fp`.
LoadLine ==
    /\ pc = "loading"
    /\ it < Len(config.file)
    /\ it' = it + 1
    /\ LET line == config.file[it + 1]
       IN  IF line = <<>>
           THEN UNCHANGED <<pe_array, pc>>
           ELSE LET d == parse_pe_date(line[1][1], line[1][2])
                IN  IF parse_raises(line[1][1], line[1][2])
                    THEN pc' = "load_raised" /\ UNCHANGED pe_array
                    ELSE IF InWindow(d, config.start_date, config.end_date)
                    THEN pe_array' = Append(pe_array, <<d, line[2]>>)
                         /\ UNCHANGED pc
                    ELSE UNCHANGED <<pe_array, pc>>
    /\ UNCHANGED <<config, disk, investors, worth_matrix, shares_matrix,
                   cash_matrix, i, j, loop_pe, loop_price, runs, disk0,
                   saves, hist>>
    /\ UNCHANGED <<avars, pvars, ovars, nlookups>>

\* The file is exhausted: load_pe_array returns.
LoadEnd ==
    /\ pc = "loading"
    /\ it = Len(config.file)
    /\ pc' = "loaded"
    /\ UNCHANGED <<config, disk, investors, pe_array, worth_matrix, shares_matrix,
                   cash_matrix, it, i, j, loop_pe, loop_price, runs, disk0,
                   saves, hist>>
    /\ UNCHANGED <<avars, pvars, ovars, nlookups>>

NextLoad == LoadLine \/ LoadEnd

\* ------------------------------------------------ the reuse specification

\* save_index_cache() between two resolutions, when the file would change.
SaveCache ==
    /\ opc # "fetch"
    /\ disk # [exists |-> TRUE, data |-> pickle_dump(index_cache)]
    /\ disk' = [exists |-> TRUE, data |-> pickle_dump(index_cache)]
    /\ saves' = saves + 1
    /\ UNCHANGED <<config, investors, pe_array, worth_matrix, shares_matrix,
                   cash_matrix, pc, it, i, j, loop_pe, loop_price, runs, disk0,
                   hist>>
    /\ UNCHANGED <<avars, pvars, ovars, nlookups>>

\* A new process constructs a validator once the one before has saved its
\* cache: index_cache = {} and load_index_cache().
NewValidator ==
    /\ opc # "fetch"
    /\ runs < MaxRuns
    /\ disk.exists
    /\ load_index_cache(disk) = index_cache
    /\ index_cache' = load_index_cache(disk)
    /\ resolved' = WithLastResolution
    /\ opc' = "idle" /\ odate' = NoDate /\ try_next' = 0 /\ result' = NoPrice
    /\ req' = <<NoDate, 0>> /\ cache0' = EmptyCache /\ calls' = <<>>
    /\ disk0' = disk
    /\ saves' = 0
    /\ runs' = runs + 1
    /\ UNCHANGED <<config, disk, investors, pe_array, worth_matrix, shares_matrix,
                   cash_matrix, pc, it, i, j, loop_pe, loop_price, hist>>
    /\ UNCHANGED <<avars, pvars, nlookups>>

NextReuse ==
    \/ Lookup
    \/ ProviderAnswers
    \/ ProviderFailsRetry
    \/ ProviderFailsRaise
    \/ SaveCache
    \/ NewValidator

\* ---------------------------------------------------------- specifications

Init == InitRun /\ OracleIdle /\ nlookups = 0 /\ AcctIdle /\ ParseIdle

\* Validators constructed and run one after the other on one file system.
Spec == Init /\ [][Next]_vars

\* An Investor driven through its methods in any order.
InitAcct == AcctCreated /\ ParseIdle /\ OracleIdle /\ nlookups = 0 /\ RunIdle

SpecAcct == InitAcct /\ [][NextAcct]_vars

\* One call of _parse_pe_date on any label.
InitParse == ParseCalled /\ AcctIdle /\ OracleIdle /\ nlookups = 0 /\ RunIdle

SpecParse == InitParse /\ [][NextParse]_vars

\* Direct calls of _get_market_price on a cache that starts empty.
InitPrice == OracleIdle /\ nlookups = 0 /\ AcctIdle /\ ParseIdle /\ RunIdle

SpecPrice == InitPrice /\ [][NextPrice]_vars

InitLoad == LoadCalled /\ AcctIdle /\ ParseIdle /\ OracleIdle /\ nlookups = 0

InitReuse == OracleIdle /\ nlookups = 0 /\ AcctIdle /\ ParseIdle /\ RunIdle

\* Direct calls of _get_market_price by validators that save the cache and
\* by those that start from the saved cache.
SpecReuse == InitReuse /\ [][NextReuse]_vars

\* load_pe_array on every file and window.
SpecLoad == InitLoad /\ [][NextLoad]_vars

\* ------------------------------------------------- properties of the account

Last == log[Len(log)]

Prev == log[1]

Called(op) == Len(log) > 0 /\ Last.op = op

\* The call before the last was op1(p) and the last was op2(p), same p > 0.
CalledPair(op1, op2) ==
    /\ Len(log) = 2
    /\ Prev.op = op1 /\ Last.op = op2
    /\ Prev.price = Last.price /\ FGt(Last.price, Zero)
    /\ ~Prev.raised /\ ~Last.raised

\* What react_to_pe(pe, price) must turn pre into, with `has` deciding when
\* an amount counts as held.
ReactOutcome(pre, pe, price, post, has(_)) ==
    IF has(pre.shares) /\ FGt(pe, pre.sell_at)
    THEN /\ post.shares = Zero
         /\ post.cash = FAdd(pre.cash, FMul(price, pre.shares))
    ELSE IF has(pre.cash) /\ FLe(pe, pre.buy_at)
    THEN \/ /\ price # Zero
            /\ post.cash = Zero
            /\ post.shares = FAdd(pre.shares, FDiv(pre.cash, price))
         \/ /\ price = Zero
            /\ post = pre
    ELSE post = pre

NonZero(x) == x # Zero

Positive(x) == FGt(x, Zero)

C7_OneSideZero ==
    /\ Called("sell_all") => acct.shares = Zero
    /\ (Called("buy_all") /\ ~Last.raised) => acct.cash = Zero

\* C7 (as stated): after sell_all or buy_all exactly one of cash and shares
\* is zero.
C7_ExactlyOneZero ==
    (Called("sell_all") \/ Called("buy_all")) =>
        (acct.cash = Zero) # (acct.shares = Zero)

\* A sell_all and a buy_all that each left the other field non-zero.
C7_Witness ==
    \/ Called("sell_all") /\ Last.pre.shares # Zero /\ acct.cash # Zero
    \/ Called("buy_all") /\ Last.pre.cash # Zero /\ acct.shares # Zero
          /\ acct.cash = Zero

\* |x - y| <= 6 * 2^-MantBits * m, computed exactly.
WithinRounding(x, y, m) ==
    XSign(XSub(XMul(XAbs(XSub(x, y)), <<Pow2(MantBits), 0>>),
               XMul(<<6, 0>>, m))) <= 0

\* |cash| + |shares| * price, computed exactly.
Magnitude(a, price) == XAdd(XAbs(a.cash), XMul(XAbs(a.shares), price))

TradedBothWays ==
    \/ CalledPair("sell_all", "buy_all")
    \/ CalledPair("buy_all", "sell_all")

\* C8 (as amended): selling everything and buying it back at the same price
\* p > 0 (or buying, then selling) changes the net worth at p by no more than
\* the rounding of the operations: 6 * 2^-MantBits * (|cash| + |shares| * p).
C8_WorthWithinRounding ==
    TradedBothWays =>
        WithinRounding(get_net_worth(acct, Last.price),
                       get_net_worth(Prev.pre, Last.price),
                       Magnitude(Prev.pre, Last.price))

\* C8 (as stated): the net worth at p is the same before and after.
C8_WorthSame ==
    TradedBothWays =>
        get_net_worth(acct, Last.price) = get_net_worth(Prev.pre, Last.price)

\* Both orders on an account holding cash and shares.
C8_Witness ==
    /\ TradedBothWays
    /\ Prev.pre.cash # Zero /\ Prev.pre.shares # Zero
    /\ get_net_worth(acct, Last.price) # Zero

\* C9: buy_all with a price <= 0 leaves cash and shares as they were (it
\* fails instead), and the shares never become negative through it.
C9_RejectsNonPositivePrice ==
    (Called("buy_all") /\ FLe(Last.price, Zero)) =>
        /\ acct = Last.pre
        /\ FLt(Last.pre.shares, Zero) \/ FGe(acct.shares, Zero)

\* --------------------------------------------- properties of _get_market_price

Ended == opc \in {"returned", "raised"}

AllFailed == \A k \in 1 .. Len(calls) : calls[k][2] = Fail

\* C3: a call for a date whose weekend-normalised date is cached returns the
\* cached price, asks the provider nothing and leaves index_cache as it was.
C3_CachedAsksNoProvider ==
    (opc # "idle" /\ NormWeekend(req[1]) \in DOMAIN cache0) =>
        /\ opc = "returned"
        /\ calls = <<>>
        /\ result = cache0[NormWeekend(req[1])]
        /\ index_cache = cache0

\* A weekend date answered from the entry of the Friday before.
C3_Witness ==
    /\ opc = "returned"
    /\ Weekday(req[1]) > 4
    /\ NormWeekend(req[1]) \in DOMAIN cache0
    /\ result \in ProviderPrices

\* D, D-1 and D-2 are weekdays that were not cached when D was asked for
\* with the default budget.
ThreeUncachedWeekdays ==
    /\ req[2] = DefaultTryNext
    /\ \A k \in 0 .. 2 :
          Weekday(req[1] - k) <= 4 /\ req[1] - k \notin DOMAIN cache0

\* In this resolution the provider failed whenever asked for D or D-1 and
\* answered whenever asked for D-2.
FailsTwiceThenAnswers ==
    \A k \in 1 .. Len(calls) :
        /\ calls[k][1] \in {req[1], req[1] - 1} => calls[k][2] = Fail
        /\ calls[k][1] = req[1] - 2 => calls[k][2] # Fail

\* C4: with budget 2 and D, D-1, D-2 uncached weekdays, a provider failing
\* for D and D-1 and answering for D-2 makes _get_market_price(D) return the
\* price of D-2 and store it under D-2, with no entry added for D or D-1.
C4_FallbackCachesUnderDateUsed ==
    (Ended /\ ThreeUncachedWeekdays /\ FailsTwiceThenAnswers) =>
        /\ opc = "returned"
        /\ Len(calls) = 3
        /\ calls[3][1] = req[1] - 2
        /\ result = calls[3][2]
        /\ DOMAIN index_cache = DOMAIN cache0 \cup {req[1] - 2}
        /\ index_cache[req[1] - 2] = calls[3][2]
        /\ \A d \in DOMAIN cache0 : index_cache[d] = cache0[d]

\* Wednesday asked for, Tuesday tried, Monday answered.
C4_Witness ==
    /\ opc = "returned"
    /\ ThreeUncachedWeekdays
    /\ Len(calls) = 3
    /\ FailsTwiceThenAnswers

\* C5: when the provider fails for the date asked for and for every fallback
\* date, the resolution ends after exactly budget + 1 provider calls by
\* raising, and index_cache is as it was.
C5_ExhaustedBudgetRaises ==
    /\ opc = "raised" =>
          /\ Len(calls) = req[2] + 1
          /\ AllFailed
          /\ index_cache = cache0
    /\ (AllFailed /\ Len(calls) = req[2] + 1) => opc = "raised"
    /\ opc = "fetch" => (AllFailed /\ Len(calls) <= req[2])

\* The default budget used up: three failed calls.
C5_Witness ==
    /\ opc = "raised"
    /\ req[2] = DefaultTryNext
    /\ Len(calls) = 3
    /\ cache0 # EmptyCache

\* ------------------------------------------------ properties of _parse_pe_date

NextMonth(m) == IF m = 12 THEN 1 ELSE m + 1

\* d is the first weekday of the month after month m of year y.
FirstWeekdayAfter(d, m, y) ==
    /\ MonthOf(d) = NextMonth(m)
    /\ YearOf(d) = (IF m = 12 THEN y + 1 ELSE y)
    /\ DayOf(d) \in 1 .. 3
    /\ Weekday(d) <= 4
    /\ \A k \in 1 .. DayOf(d) - 1 : Weekday(d - k) > 4

\* The loop ends: it never walks further than from the 28th over three more
\* days of the month and the first three of the next.
BoundedWalk == ppc = "loop" => date - date0 <= 27 + 6

\* C10 (as stated): for every month/year label _parse_pe_date returns, and
\* returns the first weekday of the following month: not a date of the input
\* month, not a Saturday or Sunday.
C10_AlwaysFirstWeekdayOfNextMonth ==
    /\ ppc # "OverflowError"
    /\ BoundedWalk
    /\ ppc = "return" =>
          /\ MonthOf(date) # label[1]
          /\ FirstWeekdayAfter(date, label[1], label[2])

\* C10 (as amended): the same for every label but 12/9999, whose following
\* month is beyond datetime.max: there the call raises OverflowError.
C10_FirstWeekdayOfNextMonth ==
    /\ ppc = "OverflowError" => label = <<12, 9999>>
    /\ label = <<12, 9999>> => ppc # "return"
    /\ BoundedWalk
    /\ ppc = "return" =>
          /\ MonthOf(date) # label[1]
          /\ FirstWeekdayAfter(date, label[1], label[2])

\* A December label resolved to the Monday after a new year's weekend.
C10_Witness ==
    /\ ppc = "return"
    /\ label[1] = 12
    /\ DayOf(date) > 1


\* ------------------------------------------------------------ the run

\* The account a as the t-th iteration found it.
StateBefore(a, t) ==
    IF t = 1 THEN InitialInvestors[config][a] ELSE hist[a][t - 1].post

\* The dates a price asked for on the day d can come from.
FallbackDates(d) == (d - 2 * DefaultTryNext - 1) .. d

\* The cache entries this run added to those it loaded.
FreshDates == DOMAIN index_cache \ DOMAIN load_index_cache(disk0)

IterationInOrder(a, t) ==
    LET h == hist[a][t]
    IN  /\ h.paid <= 1 /\ h.reacted <= h.paid /\ h.recorded <= h.reacted
        /\ h.paid = 1 => h.paidstate = get_paid(StateBefore(a, t))
        /\ h.reacted = 1 =>
              /\ h.post = react_to_pe(h.paidstate, pe_array[t][2], h.price)
              /\ \E d \in FallbackDates(pe_array[t][1]) \cap DOMAIN index_cache :
                    h.price = index_cache[d]
              /\ t = it => h.price = result
        /\ h.recorded = 1 =>
              /\ h.col = t
              /\ worth_matrix[a][t] = get_net_worth(h.post, h.price)
              /\ shares_matrix[a][t] = h.post.shares
              /\ cash_matrix[a][t] = h.post.cash
        /\ h.recorded = 0 =>
              /\ worth_matrix[a][t] = Uninit
              /\ shares_matrix[a][t] = Uninit
              /\ cash_matrix[a][t] = Uninit
        /\ (h.paid = 1 /\ t > 1) =>
              \A b \in 1 .. NInv : hist[b][t - 1].recorded = 1

\* C2: in every iteration t and for every account a, the run pays the
\* account once, then has it react to the ratio and the price of period t,
\* then writes its worth at that price, its shares and its cash to cell
\* [a][t]; no account enters period t before all have been recorded for
\* period t - 1; when the run has completed every cell has been written once,
\* with the state the account had after reacting in that period.
C2_EachPeriodPaidReactedRecorded ==
    /\ \A a \in 1 .. NInv : \A t \in 1 .. NPer : IterationInOrder(a, t)
    /\ pc = "done" =>
          \A a \in 1 .. NInv : \A t \in 1 .. NPer : hist[a][t].recorded = 1

\* A completed run of two accounts over two periods in which an account
\* bought in the first period and sold in the second.
C2_Witness ==
    /\ pc = "done"
    /\ NInv = 2 /\ NPer = 2
    /\ \E a \in 1 .. NInv :
          /\ shares_matrix[a][1] # Zero
          /\ shares_matrix[a][2] = Zero
          /\ cash_matrix[a][2] # Zero

NothingFrom(t0) ==
    \A a \in 1 .. NInv : \A t \in t0 .. NPer :
        /\ hist[a][t] = NoHist
        /\ worth_matrix[a][t] = Uninit
        /\ shares_matrix[a][t] = Uninit
        /\ cash_matrix[a][t] = Uninit

AbortLosesTheRun ==
    pc = "aborted" =>
        /\ opc = "raised"
        /\ NothingFrom(it)
        /\ disk = disk0
        /\ \A d \in FreshDates : d \notin DOMAIN load_index_cache(disk)

\* C6: when the price of period i cannot be resolved the run ends with the
\* exception: no account was paid, reacted or was recorded for period i or a
\* later one, the call never returns normally, and the cache file is as it
\* was when the run began, so it holds none of the entries the run resolved.
C6_FailedResolutionAbortsRun ==
    /\ []AbortLosesTheRun
    /\ [][pc = "aborted" => (pc' = "aborted" \/ runs' = runs + 1)]_vars

\* A run aborted in its second period, after its first period put a new
\* entry into the cache.
C6_Witness ==
    /\ pc = "aborted"
    /\ it = 2
    /\ FreshDates # {}
    /\ hist[1][1].recorded = 1

\* ------------------------------------------------ properties of the rows

\* The account a starts without shares and the ratio of every period is
\* above its buy threshold.
NeverBelowBuy(a) ==
    /\ InitialInvestors[config][a].shares = Zero
    /\ \A t \in 1 .. NPer : FGt(pe_array[t][2], investors[a].buy_at)

Recorded(a, t) == hist[a][t].recorded = 1

\* C11: an account that starts with no shares and meets a ratio above its
\* buy threshold in every period never trades: what is recorded for it in
\* period t (from 1) is cash = init_cash + income * t, no shares, and a net
\* worth equal to the cash.
C11_IdleAccountOnlySaves ==
    \A a \in 1 .. NInv :
        NeverBelowBuy(a) =>
            \A t \in 1 .. NPer :
                Recorded(a, t) =>
                    /\ cash_matrix[a][t] =
                          FAdd(investors[a].init_cash,
                               FMul(investors[a].income, F(t)))
                    /\ shares_matrix[a][t] = Zero
                    /\ worth_matrix[a][t] = cash_matrix[a][t]

\* A completed run of two periods in which one account never traded and the
\* other bought.
C11_Witness ==
    /\ pc = "done"
    /\ NPer = 2
    /\ \E a, b \in 1 .. NInv :
          /\ NeverBelowBuy(a)
          /\ ~NeverBelowBuy(b)
          /\ shares_matrix[b][1] # Zero

\* ----------------------------------------------- properties of the cache file

SavedOnceAndLoadable ==
    /\ pc = "done" =>
          /\ saves = 1
          /\ disk.exists
          /\ load_index_cache(disk) = index_cache
    /\ pc \notin {"done", "idle", "new"} => saves = 0
    /\ (pc = "ready" /\ ~disk.exists) => index_cache = EmptyCache

\* The validator constructed after a completed run starts from the cache that
\* run ended with; the first one, with no file, from the empty cache.
NextStartsFromSaved ==
    /\ (pc = "done" /\ pc' = "ready") => index_cache' = index_cache
    /\ (pc = "new" /\ pc' = "ready") => index_cache' = EmptyCache

\* C12: a run that completes has saved the cache exactly once, and a new
\* validator loads from the file a mapping equal to the index_cache the run
\* ended with; with no cache file the new validator starts from the empty
\* mapping.
C12_SaveOnceLoadEqual ==
    /\ []SavedOnceAndLoadable
    /\ [][NextStartsFromSaved]_vars

\* A second validator that loaded two entries saved by the run before it.
C12_Witness ==
    /\ pc = "ready"
    /\ runs = 2
    /\ saves = 0
    /\ disk.exists
    /\ Cardinality(DOMAIN index_cache) >= 2

\* -------------------------------------------- properties of load_pe_array

\* The date the record l resolves to.
ResolvedDate(l) == parse_pe_date(l[1][1], l[1][2])

\* The records among lines whose resolved date is in the window, in the
\* order of the lines.
KeptRecords(lines, start_date, end_date) ==
    LET InsideWindow(l) ==
            /\ l # <<>>
            /\ start_date <= ResolvedDate(l)
            /\ ResolvedDate(l) <= end_date
    IN  SelectSeq(lines, InsideWindow)

PairedWithRatio(records) ==
    [k \in 1 .. Len(records) |-> <<ResolvedDate(records[k]), records[k][2]>>]

\* C13: after load_pe_array (and after each line it has read) pe_array holds,
\* in the order of the input, the (date, ratio) pairs of exactly the records
\* whose resolved date is within [start_date, end_date]; records outside
\* the window and blank lines add nothing.
C13_LoadKeepsWindowInOrder ==
    pc \in {"loading", "loaded"} =>
        /\ pe_array = PairedWithRatio(KeptRecords(SubSeq(config.file, 1, it),
                                                  config.start_date, config.end_date))
        /\ pc = "loaded" =>
              pe_array = load_pe_array(config.file, config.start_date, config.end_date)

\* A file of a blank line, a record on the end of the window and one after
\* it: only the record on the end date was kept.
C13_Witness ==
    /\ pc = "loaded"
    /\ Len(config.file) = 3
    /\ Len(pe_array) = 1
    /\ pe_array[1][1] = config.end_date
    /\ \E k \in 1 .. 3 : config.file[k] = <<>>
    /\ \E k \in 1 .. 3 :
          /\ config.file[k] # <<>>
          /\ ResolvedDate(config.file[k]) > config.end_date

\* --------------------------------------------- properties of index_cache

\* Every entry of the cache is still there, with its price.
Kept ==
    \A d \in DOMAIN index_cache :
        d \in DOMAIN index_cache' /\ index_cache'[d] = index_cache[d]

\* The step is a provider fetch that answered, and the one entry it added is
\* keyed by the normalised date it fetched.
AddedByFetch ==
    /\ opc = "fetch" /\ opc' = "returned"
    /\ odate = NormWeekend(odate)
    /\ odate \notin DOMAIN index_cache
    /\ DOMAIN index_cache' = DOMAIN index_cache \cup {odate}
    /\ index_cache'[odate] = result'
    /\ calls' = Append(calls, <<odate, result'>>)

\* C14: over any sequence of _get_market_price calls no key leaves
\* index_cache and no price in it changes; the cache changes only in a step
\* where the provider answered, which adds exactly one entry under the
\* normalised date that was fetched.
C14_CacheAppendOnly ==
    [][Kept /\ (index_cache' # index_cache => AddedByFetch)]_vars

\* A second lookup has just stored its price beside the entry of the first.
C14_Witness ==
    /\ nlookups = 2
    /\ opc = "returned"
    /\ Len(calls) >= 1
    /\ Cardinality(DOMAIN index_cache) = 2
    /\ DOMAIN cache0 # {}
    /\ DOMAIN cache0 # DOMAIN index_cache

\* ------------------------------------------------ properties of weekends

IsWeekday(d) == Weekday(d) <= 4

\* The Friday before a Saturday or Sunday; a weekday is kept.
FridayOrSame(d) ==
    IF Weekday(d) = 5 THEN d - 1 ELSE IF Weekday(d) = 6 THEN d - 2 ELSE d

\* The provider calls of the lookup under way went to the date asked for
\* (the Friday before it if it is a weekend), then after each failure to the
\* day before (the Friday before it if that is a weekend).
CallsStepBack ==
    /\ Len(calls) >= 1 => calls[1][1] = FridayOrSame(req[1])
    /\ \A k \in 1 .. Len(calls) - 1 :
          /\ calls[k][2] = Fail
          /\ calls[k + 1][1] = FridayOrSame(calls[k][1] - 1)
    /\ opc = "fetch" =>
          odate = IF calls = <<>> THEN FridayOrSame(req[1])
                  ELSE FridayOrSame(calls[Len(calls)][1] - 1)

\* Each failed attempt, and nothing else, takes one from the retry budget.
BudgetCountsFailures ==
    /\ opc = "fetch" => try_next = req[2] - Len(calls)
    /\ Len(calls) <= req[2] + 1

\* C15: every date the provider is asked for and every key of index_cache
\* is a weekday, on the first attempt and on every retry: a weekend date is
\* taken back to the Friday before it, the retry after a failure on a Monday
\* goes to the Friday before, and skipping the weekend takes nothing from
\* the retry budget.
C15_OnlyWeekdaysAsked ==
    /\ \A k \in 1 .. Len(calls) : IsWeekday(calls[k][1])
    /\ \A d \in DOMAIN index_cache : IsWeekday(d)
    /\ opc = "fetch" => IsWeekday(odate)
    /\ CallsStepBack
    /\ BudgetCountsFailures

\* A lookup for a Monday with two retries: the Monday and the Friday before
\* it failed and the Thursday answered.
C15_Witness ==
    /\ opc = "returned"
    /\ Weekday(req[1]) = 0
    /\ req[2] = 2
    /\ Len(calls) = 3
    /\ calls[2][1] = req[1] - 3
    /\ calls[3][1] = req[1] - 4
    /\ calls[3][2] # Fail

\* ------------------------------------------- properties of the period order

\* C16: the periods calculate_worth_vs_time has taken so far came in
\* chronological order: each one's date is before the date of the next.
C16_PeriodsChronological ==
    \A t \in 1 .. it - 1 :
        (pc \notin {"idle", "new", "loading", "loaded", "load_raised"}) =>
            pe_array[t][1] < pe_array[t + 1][1]

\* --------------------------------------- properties of accounts side by side

\* The account made from the a-th thresholds alone.
OwnAccount(a) ==
    Investor(config.buy_thresholds[a], SellThresholds(config)[a],
             F(DefaultInitCash), Zero, F(DefaultIncome))

\* The price the run used in period t.
PeriodPrice(t) == hist[1][t].price

\* An account driven alone through the first t (ratio, price) pairs.
RECURSIVE Alone(_, _)
Alone(inv, t) ==
    IF t = 0 THEN inv
    ELSE react_to_pe(get_paid(Alone(inv, t - 1)), pe_array[t][2], PeriodPrice(t))

\* C17: the row recorded for account a is what its own thresholds, initial
\* cash, initial shares and income give when it is driven alone through the
\* (ratio, price) pairs of the run; every account sees the same price in a
\* period; so a row does not depend on the other accounts or on the account's
\* place among them.
C17_RowsIndependent ==
    \A a \in 1 .. NInv : \A t \in 1 .. NPer :
        /\ hist[a][t].reacted = 1 => hist[a][t].price = PeriodPrice(t)
        /\ Recorded(a, t) =>
              LET alone == Alone(OwnAccount(a), t)
              IN  /\ cash_matrix[a][t] = alone.cash
                  /\ shares_matrix[a][t] = alone.shares
                  /\ worth_matrix[a][t] = get_net_worth(alone, PeriodPrice(t))

\* A completed run of two periods in which the two accounts ended the first
\* period differently: one bought, the other did not.
C17_Witness ==
    /\ pc = "done"
    /\ NPer = 2
    /\ NInv = 2
    /\ shares_matrix[1][1] # shares_matrix[2][1]
    /\ cash_matrix[1][2] # cash_matrix[2][2]

\* ----------------------------------------------- properties of the balances

NonNegative(a) == FGe(a.cash, Zero) /\ FGe(a.shares, Zero)

\* The call made in this step, with its price.
StepCall == log'[Len(log')]

PositivePriceOrNone(e) == e.op = "get_paid" \/ FGt(e.price, Zero)

\* C18: an account with income >= 0 whose cash and shares are >= 0 has
\* cash >= 0 and shares >= 0 after any of get_paid, sell_all, buy_all and
\* react_to_pe at a price > 0; starting from init_cash >= 0 and shares >= 0
\* they are so in every state such calls lead to.
C18_NoShortNoDebt ==
    [][(/\ NonNegative(acct)
        /\ FGe(acct.income, Zero)
        /\ PositivePriceOrNone(StepCall))
       => NonNegative(acct')]_vars

\* An account that held cash and shares, bought at a positive price and
\* then sold at one.
C18_Witness ==
    /\ CalledPair("buy_all", "sell_all")
    /\ Positive(Prev.pre.cash) /\ Positive(Prev.pre.shares)
    /\ FGe(acct.income, Zero)
    /\ Positive(Prev.price) /\ Positive(Last.price)
    /\ Positive(acct.cash)

\* ------------------------------------------- properties of the recorded worth

\* cash + income + shares * price for the account as the period found it.
WorthBeforeDeciding(a, t) ==
    get_net_worth(get_paid(StateBefore(a, t)), hist[a][t].price)

SellOmitted(a) == SellThresholds(config)[a] = None

\* C20: an account made without a sell threshold (sell_at = buy_at), starting
\* with no shares, paid an income > 0 and trading at prices > 0, is recorded
\* at the end of every period with exactly one of cash and shares zero.
C20_CashOrSharesNeverBoth ==
    \A a \in 1 .. NInv :
        (/\ SellOmitted(a)
         /\ InitialInvestors[config][a].shares = Zero
         /\ Positive(investors[a].income)) =>
            \A t \in 1 .. NPer :
                (Recorded(a, t) /\ Positive(hist[a][t].price)) =>
                    /\ investors[a].sell_at = investors[a].buy_at
                    /\ (cash_matrix[a][t] = Zero) # (shares_matrix[a][t] = Zero)

\* A completed run in which an account without a sell threshold was recorded
\* holding shares and no cash in the first period and cash and no shares in
\* the second.
C20_Witness ==
    /\ pc = "done"
    /\ NPer = 2
    /\ \E a \in 1 .. NInv :
          /\ SellOmitted(a)
          /\ cash_matrix[a][1] = Zero /\ shares_matrix[a][1] # Zero
          /\ cash_matrix[a][2] # Zero /\ shares_matrix[a][2] = Zero

\* ------------------------------------------- properties of repeated lookups

\* The date asked for now was resolved before.
AskedAgain == opc # "idle" /\ req[1] \in DOMAIN resolved

\* C21 (as amended): when _get_market_price(D) returned the price of D itself
\* (of the weekday D normalises to), every later _get_market_price(D), in the
\* same run or in a run started from the saved cache, returns that price and
\* asks the provider nothing. When it returned the price of an earlier
\* fallback date, D itself was not cached: a later call, unless D has been
\* cached since, asks the provider for D again.
C21_RepeatReturnsCachedWhenDirect ==
    AskedAgain =>
        IF resolved[req[1]].direct
        THEN /\ opc = "returned"
             /\ calls = <<>>
             /\ result = resolved[req[1]].price
             /\ index_cache = cache0
        ELSE NormWeekend(req[1]) \notin DOMAIN cache0 =>
                /\ opc = "fetch" => calls # <<>> \/ odate = NormWeekend(req[1])
                /\ opc # "fetch" => calls # <<>>
                /\ calls # <<>> => calls[1][1] = NormWeekend(req[1])

\* C21 (as stated): every later call for a date resolved before returns the
\* same price and asks the provider nothing, also after a fallback.
C21_RepeatAlwaysSamePriceNoProvider ==
    AskedAgain =>
        /\ opc = "returned"
        /\ calls = <<>>
        /\ result = resolved[req[1]].price

\* A validator started from the saved cache was asked for a date the
\* validator before it had resolved from the provider, and answered from the
\* cache.
C21_Witness ==
    /\ runs = 1
    /\ disk.exists
    /\ AskedAgain
    /\ resolved[req[1]].direct
    /\ opc = "returned"
    /\ calls = <<>>
    /\ result \in ProviderPrices

====
